---- MODULE Spec2Model ----
(***************************************************************************)
(* child_windows_viewer: the dual-list selection state machine             *)
(* (StatefulList, AppState) and the refresh/input loop (run_app) of        *)
(* src/src/main.rs.                                                        *)
(***************************************************************************)
EXTENDS Integers, Sequences, FiniteSets, TLC

\* ------------------------------------------------------------- bounds
\* Longest list the top-level enumeration reports; handles are 1..MaxLen.
MaxLen == 3
\* Most windows one list_related (enum_child_windows) call reports.
MaxChildren == 2
\* Width of usize in the model (64 in the build; narrowed to fit TLC's integers).
UsizeBits == 16
\* Cap on the modelled time since the last tick, in milliseconds.
MaxElapsed == 500

\* Most windows the OS reports in one pass of the enumeration under study.
MaxReported == 3

\* ------------------------------------------------------------- constants
\* let mut text: [u16; 512] = [0; 512]
BufLen == 512
\* const RATE: Duration = Duration::from_millis(250)
RATE == 250

VARIABLES
    app_state,        \* AppState: [windows, children], each a StatefulList
    pc,               \* position of run_app: render, poll, read, tick, terminated, failed, panicked
    fault,            \* the panic that ended the loop, or "none"
    overflow_checks,  \* build profile: TRUE = overflow checks on (debug), FALSE = wrapping (release)
    elapsed,          \* last_tick.elapsed(), in milliseconds, capped at MaxElapsed
    last_event,       \* what the loop did last: "start", "drawn", "timeout", or the match arm taken
    derived,          \* latest enum_child_windows call: Some([parent, result]) or None
    replaced,         \* item that was selected when the key event of this iteration arrived, or None
    os,               \* what the OS window system reports to the enumeration under study
    listed            \* the Vec<Window> that enumeration returned

vars == <<app_state, pc, fault, overflow_checks, elapsed, last_event, derived, replaced,
          os, listed>>

\* ------------------------------------------------------------- Option<T>
None == <<>>
Some(x) == <<x>>
IsSome(o) == o # <<>>
Unwrap(o) == o[1]

Min(a, b) == IF a <= b THEN a ELSE b

\* ------------------------------------------------------------- usize
UsizeModulus == 2 ^ UsizeBits
\* a - b on usize in a build without overflow checks
WrappingSub(a, b) == (a - b) % UsizeModulus

\* ------------------------------------------------------------- the OS window system
Handles == 1 .. MaxLen

\* What enum_windows() can return: the filtered top-level windows, in OS order
\* (every window at most once).
enum_windows ==
    { s \in UNION { [1 .. n -> Handles] : n \in 0 .. MaxLen } :
        \A i, j \in DOMAIN s : i # j => s[i] # s[j] }

\* What enum_child_windows(parent) returns when the OS reports n windows for it
\* (0 when the parent has vanished): the j-th window reported for parent.
enum_child_windows(parent, n) == [j \in 1 .. n |-> [parent |-> parent, n |-> j]]

\* ------------------------------------------------------------- enumeration in detail
\* Text is a sequence of characters.
IME == <<"I", "M", "E">>
MSCTFIME_UI == <<"M", "S", "C", "T", "F", "I", "M", "E", " ", "U", "I">>
WindowsForms10 == <<"W", "i", "n", "d", "o", "w", "s", "F", "o", "r", "m", "s", "1", "0">>

is_empty(text) == Len(text) = 0
starts_with(text, prefix) ==
    Len(text) >= Len(prefix) /\ SubSeq(text, 1, Len(prefix)) = prefix

\* GetClassNameW / GetWindowTextW into `text: [u16; 512]`: at most BufLen - 1
\* characters are copied, and text[..len] is what becomes the String.
Copied(text) == SubSeq(text, 1, Min(Len(text), BufLen - 1))

\* enum_window: the callback pushes the descriptor of the window the OS hands it
enum_window(windows_pointer, w) ==
    Append(windows_pointer,
           [class_name |-> Copied(w.class_name),
            window_text |-> Copied(w.window_text),
            handle |-> w.handle,
            process_id |-> w.process_id])

RECURSIVE Enumerate(_, _)
\* EnumWindows / EnumChildWindows / EnumThreadWindows: the callback is called
\* once for each window of the pass, in the OS's order
Enumerate(windows_pointer, pass) ==
    IF pass = <<>> THEN windows_pointer
    ELSE Enumerate(enum_window(windows_pointer, Head(pass)), Tail(pass))

\* the filter closure of enum_windows as it would be if it compared the class
\* name for equality instead of starts_with
keep_equal(window) ==
    IF is_empty(window.class_name) THEN FALSE
    ELSE IF window.class_name = IME THEN FALSE
    ELSE IF window.class_name = MSCTFIME_UI THEN FALSE
    ELSE IF window.class_name = WindowsForms10 THEN FALSE
    ELSE IF is_empty(window.window_text) THEN FALSE
    ELSE TRUE

\* the filter closure of enum_windows: the first match arm that applies
keep(window) ==
    IF is_empty(window.class_name) THEN FALSE
    ELSE IF starts_with(window.class_name, IME) THEN FALSE
    ELSE IF starts_with(window.class_name, MSCTFIME_UI) THEN FALSE
    ELSE IF starts_with(window.class_name, WindowsForms10) THEN FALSE
    ELSE IF is_empty(window.window_text) THEN FALSE
    ELSE TRUE

RECURSIVE Filter(_)
\* windows.into_iter().filter(..).collect()
Filter(windows) ==
    IF windows = <<>> THEN <<>>
    ELSE IF keep(Head(windows))
         THEN <<Head(windows)>> \o Filter(Tail(windows))
         ELSE Filter(Tail(windows))

\* enum_windows(), the OS reporting the windows of top_pass
enum_windows_of(top_pass) == Filter(Enumerate(<<>>, top_pass))

\* enum_child_windows(parent) as it would be if it filtered like enum_windows
enum_child_windows_filtered(child_pass, thread_pass) ==
    Filter(Enumerate(Enumerate(<<>>, child_pass), thread_pass))

\* enum_child_windows(parent), the OS reporting child_pass for parent.handle
\* and thread_pass for parent.process_id
enum_child_windows_of(child_pass, thread_pass) ==
    Enumerate(Enumerate(<<>>, child_pass), thread_pass)

\* No enumeration under study (the loop model treats results abstractly).
NoQuery == [query |-> "none", first_pass |-> <<>>, second_pass |-> <<>>]

\* ------------------------------------------------------------- StatefulList
\* An operation's outcome: the list afterwards and the panic it raised, if any.
Ok(list) == [list |-> list, fault |-> "none"]
Panic(list, kind) == [list |-> list, fault |-> kind]

from(vec) == [state |-> IF vec # <<>> THEN Some(0) ELSE None, vec |-> vec]

\* update as it would be if it dropped the selection of a list that becomes empty
update_clearing(self, items) ==
    LET len == Len(items)
        clamp == IsSome(self.state) /\ Unwrap(self.state) > len
    IN  Ok([state |-> IF len = 0 THEN None
                      ELSE IF clamp THEN Some(len - 1) ELSE self.state,
            vec |-> items])

\* update as it would be if it selected the first item of a list that had no selection
update_selecting(self, items) ==
    LET len == Len(items)
        clamp == IsSome(self.state) /\ Unwrap(self.state) > len
    IN  IF clamp /\ len < 1 /\ overflow_checks
        THEN Panic(self, "sub_overflow")
        ELSE Ok([state |-> IF clamp THEN Some(WrappingSub(len, 1))
                           ELSE IF self.state = None /\ len > 0 THEN Some(0)
                           ELSE self.state,
                 vec |-> items])

\* update as it would be if it rebuilt the list: *self = Self::from(items)
update_resetting(self, items) == Ok(from(items))

update(self, items) ==
    LET len == Len(items)
        clamp == IsSome(self.state) /\ Unwrap(self.state) > len
    IN  IF clamp /\ len < 1 /\ overflow_checks
        THEN Panic(self, "sub_overflow")
        ELSE Ok([state |-> IF clamp THEN Some(WrappingSub(len, 1)) ELSE self.state,
                 vec |-> items])

\* next as it would be with `i > len - 1` for `i >= len - 1`
next_gt(self) ==
    LET len == Len(self.vec)
    IN  IF IsSome(self.state)
        THEN IF len < 1 /\ overflow_checks
             THEN Panic(self, "sub_overflow")
             ELSE LET i == Unwrap(self.state)
                  IN Ok([self EXCEPT !.state =
                            Some(IF i > WrappingSub(len, 1) THEN 0 ELSE i + 1)])
        ELSE Ok([self EXCEPT !.state = Some(0)])

\* next as it would be if it stopped at the last index instead of wrapping
next_saturating(self) ==
    LET len == Len(self.vec)
    IN  IF IsSome(self.state)
        THEN IF len < 1 /\ overflow_checks
             THEN Panic(self, "sub_overflow")
             ELSE LET i == Unwrap(self.state)
                  IN Ok([self EXCEPT !.state =
                            Some(IF i >= WrappingSub(len, 1) THEN i ELSE i + 1)])
        ELSE Ok([self EXCEPT !.state = Some(0)])

next(self) ==
    LET len == Len(self.vec)
    IN  IF IsSome(self.state)
        THEN IF len < 1 /\ overflow_checks
             THEN Panic(self, "sub_overflow")
             ELSE LET i == Unwrap(self.state)
                  IN Ok([self EXCEPT !.state =
                            Some(IF i >= WrappingSub(len, 1) THEN 0 ELSE i + 1)])
        ELSE Ok([self EXCEPT !.state = Some(0)])

\* previous as it would be if index 0 wrapped to `len` instead of `len - 1`
previous_wrap_len(self) ==
    LET len == Len(self.vec)
    IN  IF IsSome(self.state)
        THEN LET i == Unwrap(self.state)
             IN IF i = 0
                THEN Ok([self EXCEPT !.state = Some(len)])
                ELSE Ok([self EXCEPT !.state = Some(i - 1)])
        ELSE Ok([self EXCEPT !.state = Some(0)])

previous(self) ==
    LET len == Len(self.vec)
    IN  IF IsSome(self.state)
        THEN LET i == Unwrap(self.state)
             IN IF i = 0
                THEN IF len < 1 /\ overflow_checks
                     THEN Panic(self, "sub_overflow")
                     ELSE Ok([self EXCEPT !.state = Some(WrappingSub(len, 1))])
                ELSE Ok([self EXCEPT !.state = Some(i - 1)])
        ELSE Ok([self EXCEPT !.state = Some(0)])

selected(self) == self.state

\* selected_item: the item, or the index-out-of-bounds panic of &self.vec[i]
selected_item(self) ==
    IF IsSome(selected(self))
    THEN IF Unwrap(selected(self)) < Len(self.vec)
         THEN [item |-> Some(self.vec[Unwrap(selected(self)) + 1]), fault |-> "none"]
         ELSE [item |-> None, fault |-> "index_oob"]
    ELSE [item |-> None, fault |-> "none"]

\* ------------------------------------------------------------- AppState
new(top) == [windows |-> from(top), children |-> from(<<>>)]

\* select_children, the OS reporting n windows for the selected item; `call` is
\* the enum_child_windows call it made: Some([parent, result]), or None
select_children(app, n) ==
    LET sel == selected_item(app.windows)
    IN  IF sel.fault # "none" THEN [app |-> app, fault |-> sel.fault, call |-> None]
        ELSE IF IsSome(sel.item)
        THEN LET parent == Unwrap(sel.item)
                 result == enum_child_windows(parent, n)
                 u == update(app.children, result)
             IN [app |-> [app EXCEPT !.children = u.list], fault |-> u.fault,
                 call |-> Some([parent |-> parent, result |-> result])]
        ELSE [app |-> app, fault |-> "none", call |-> None]

\* ------------------------------------------------------------- presenter
\* create_window_list: highlighting items[selected] panics out of bounds
create_window_list(list) ==
    IF IsSome(selected(list)) /\ Unwrap(selected(list)) >= Len(list.vec)
    THEN "index_oob" ELSE "none"

ui(app) ==
    IF create_window_list(app.windows) # "none"
    THEN create_window_list(app.windows)
    ELSE create_window_list(app.children)

\* ------------------------------------------------------------- keyboard
\* Key events: one per match arm, and for 'c' every way the modifiers can (fail to) match.
KeyEvents ==
    { [modifiers |-> "CONTROL", code |-> "c"],
      [modifiers |-> "NONE", code |-> "c"],
      [modifiers |-> "CONTROL|SHIFT", code |-> "c"],
      [modifiers |-> "NONE", code |-> "q"],
      [modifiers |-> "NONE", code |-> "Up"],
      [modifiers |-> "NONE", code |-> "Down"],
      [modifiers |-> "NONE", code |-> "r"],
      [modifiers |-> "NONE", code |-> "x"] }

\* the match as it would be if the interrupt arm ignored the modifiers: (_, Char('c'))
Arm_any_c(key) ==
    IF key.code = "c" THEN "break"
    ELSE IF key.code = "q" THEN "break"
    ELSE IF key.code = "Up" THEN "previous"
    ELSE IF key.code = "Down" THEN "next"
    ELSE IF key.code = "r" THEN "update"
    ELSE "ignore"

\* match (key.modifiers, key.code): the first arm that matches
Arm(key) ==
    IF key.modifiers = "CONTROL" /\ key.code = "c" THEN "break"
    ELSE IF key.code = "q" THEN "break"
    ELSE IF key.code = "Up" THEN "previous"
    ELSE IF key.code = "Down" THEN "next"
    ELSE IF key.code = "r" THEN "update"
    ELSE "ignore"

\* The key events that take the given arm.
KeysOf(arm) == { key \in KeyEvents : Arm(key) = arm }

\* (_, Up) => { windows.previous(); select_children() }
key_up(app, n) ==
    LET p == previous(app.windows)
    IN  IF p.fault # "none" THEN [app |-> app, fault |-> p.fault, call |-> None]
        ELSE select_children([app EXCEPT !.windows = p.list], n)

\* (_, Down) => { windows.next(); select_children() }
key_down(app, n) ==
    LET p == next(app.windows)
    IN  IF p.fault # "none" THEN [app |-> app, fault |-> p.fault, call |-> None]
        ELSE select_children([app EXCEPT !.windows = p.list], n)

\* the 'r' arm as it would be without its select_children() call
key_r_no_refresh(app, items, n) ==
    LET u == update(app.windows, items)
    IN  [app |-> [app EXCEPT !.windows = u.list], fault |-> u.fault, call |-> None]

\* (_, Char('r')) => { windows.update(enum_windows()); select_children() }
key_r(app, items, n) ==
    LET u == update(app.windows, items)
    IN  IF u.fault # "none" THEN [app |-> app, fault |-> u.fault, call |-> None]
        ELSE select_children([app EXCEPT !.windows = u.list], n)

\* ------------------------------------------------------------- run_app
\* Time one step of the loop can take, in milliseconds.
Delays == {0, RATE \div 2, RATE}

Advance(d) == Min(elapsed + d, MaxElapsed)

\* the timeout as it would be with a plain subtraction on a signed quantity
timeout_unchecked == RATE - elapsed

\* RATE.checked_sub(last_tick.elapsed()).unwrap_or_else(|| Duration::from_secs(0))
timeout == IF RATE >= elapsed THEN RATE - elapsed ELSE 0

Init ==
    /\ \E top \in enum_windows : app_state = new(top)
    /\ overflow_checks \in BOOLEAN
    /\ pc = "render"
    /\ fault = "none"
    /\ elapsed = 0
    /\ last_event = "start"
    /\ derived = None
    /\ replaced = None
    /\ os = NoQuery
    /\ listed = <<>>

\* terminal.draw(|f| ui(f, &mut app_state))
Render ==
    /\ pc = "render"
    /\ IF ui(app_state) = "none"
       THEN /\ pc' = "poll"
            /\ fault' = fault
            /\ \E d \in Delays : elapsed' = Advance(d)
       ELSE /\ pc' = "panicked"
            /\ fault' = ui(app_state)
            /\ elapsed' = elapsed
    /\ last_event' = "drawn"
    /\ replaced' = None
    /\ UNCHANGED <<app_state, overflow_checks, derived, os, listed>>

\* crossterm::event::poll(timeout) returns true: an event is ready after w milliseconds
PollEvent ==
    \E w \in Delays :
        /\ pc = "poll"
        /\ w <= timeout
        /\ elapsed' = Advance(w)
        /\ pc' = "read"
        /\ UNCHANGED <<app_state, fault, overflow_checks, last_event, derived, replaced, os, listed>>

\* poll(timeout) returns false: no event within the timeout
PollTimeout ==
    /\ pc = "poll"
    /\ elapsed' = Advance(timeout)
    /\ last_event' = "timeout"
    /\ pc' = "tick"
    /\ UNCHANGED <<app_state, fault, overflow_checks, derived, replaced, os, listed>>

\* read() yields Event::Key(key)
KeyArrives(key) ==
    /\ pc = "read"
    /\ last_event' = Arm(key)
    /\ replaced' = selected_item(app_state.windows).item
    /\ UNCHANGED <<overflow_checks, elapsed, os, listed>>

\* The state a handler leaves: the loop goes on to the tick check, or has panicked.
Handled(out) ==
    /\ app_state' = out.app
    /\ fault' = out.fault
    /\ pc' = IF out.fault = "none" THEN "tick" ELSE "panicked"
    /\ derived' = IF IsSome(out.call) THEN out.call ELSE derived

KeyQuit ==
    \E key \in KeysOf("break") :
        /\ KeyArrives(key)
        /\ pc' = "terminated"
        /\ UNCHANGED <<app_state, fault, derived, os, listed>>

KeyUpWith(key, n) ==
    /\ KeyArrives(key)
    /\ Handled(key_up(app_state, n))

KeyUp ==
    \E key \in KeysOf("previous"), n \in 0 .. MaxChildren : KeyUpWith(key, n)

KeyDownWith(key, n) ==
    /\ KeyArrives(key)
    /\ Handled(key_down(app_state, n))

KeyDown ==
    \E key \in KeysOf("next"), n \in 0 .. MaxChildren : KeyDownWith(key, n)

\* the 'r' key, enum_windows() returning items
KeyRWith(key, items, n) ==
    /\ KeyArrives(key)
    /\ Handled(key_r(app_state, items, n))

KeyR ==
    \E key \in KeysOf("update"), items \in enum_windows, n \in 0 .. MaxChildren :
        KeyRWith(key, items, n)

KeyOther ==
    \E key \in KeysOf("ignore") :
        /\ KeyArrives(key)
        /\ pc' = "tick"
        /\ UNCHANGED <<app_state, fault, derived, os, listed>>

\* read() yields an event that is not Event::Key
NonKeyEvent ==
    /\ pc = "read"
    /\ last_event' = "ignore"
    /\ pc' = "tick"
    /\ UNCHANGED <<app_state, fault, overflow_checks, elapsed, derived, replaced, os, listed>>

\* the tick as it would be if it refreshed the top-level list as well
TickElapsed_full_refresh(n) ==
    /\ pc = "tick"
    /\ elapsed >= RATE
    /\ elapsed' = 0
    /\ \E items \in enum_windows :
          LET out == key_r(app_state, items, n)
          IN  /\ app_state' = out.app
              /\ fault' = out.fault
              /\ pc' = IF out.fault = "none" THEN "render" ELSE "panicked"
              /\ derived' = IF IsSome(out.call) THEN out.call ELSE derived
    /\ UNCHANGED <<overflow_checks, last_event, replaced, os, listed>>

\* if last_tick.elapsed() >= RATE { last_tick = Instant::now(); select_children() }
TickElapsedWith(n) ==
    /\ pc = "tick"
    /\ elapsed >= RATE
    /\ elapsed' = 0
    /\ LET out == select_children(app_state, n)
       IN  /\ app_state' = out.app
           /\ fault' = out.fault
           /\ pc' = IF out.fault = "none" THEN "render" ELSE "panicked"
           /\ derived' = IF IsSome(out.call) THEN out.call ELSE derived
    /\ UNCHANGED <<overflow_checks, last_event, replaced, os, listed>>

TickElapsed == \E n \in 0 .. MaxChildren : TickElapsedWith(n)

\* the tick check as it would be if it ran only when no key event was handled
TickSkip_after_key ==
    /\ pc = "tick"
    /\ (elapsed < RATE \/ last_event # "timeout")
    /\ pc' = "render"
    /\ UNCHANGED <<app_state, fault, overflow_checks, elapsed, last_event, derived, replaced, os, listed>>

TickSkip ==
    /\ pc = "tick"
    /\ elapsed < RATE
    /\ pc' = "render"
    /\ UNCHANGED <<app_state, fault, overflow_checks, elapsed, last_event, derived, replaced, os, listed>>

\* terminal.draw(..)?, event::poll(..)? or event::read()? returns Err: run_app
\* returns the io::Error
IoError ==
    /\ pc \in {"render", "poll", "read"}
    /\ pc' = "failed"
    /\ UNCHANGED <<app_state, fault, overflow_checks, elapsed, last_event, derived, replaced, os, listed>>

Next ==
    \/ IoError
    \/ Render
    \/ PollEvent
    \/ PollTimeout
    \/ KeyQuit
    \/ KeyUp
    \/ KeyDown
    \/ KeyR
    \/ KeyOther
    \/ NonKeyEvent
    \/ TickElapsed
    \/ TickSkip

Spec == Init /\ [][Next]_vars

\* Time passes: a draw or an input wait takes more than zero milliseconds.
TimePasses == (Render \/ PollEvent \/ PollTimeout) /\ elapsed' > elapsed

\* The loop keeps executing while it can (single control thread, no other
\* suspension point than the bounded poll): the draw returns, the poll returns
\* at the latest when its timeout expires, read() is only called once poll has
\* reported an event and so returns, and the tick check runs. Any step taken
\* from the read stage leaves it, so weak fairness on one action that is always
\* enabled there rules out exactly a loop that stays inside read() forever;
\* no key action is required to happen. The monotonic clock keeps advancing:
\* draws and waits cannot all take zero time forever.
LiveSpec ==
    /\ Spec
    /\ WF_vars(Render)
    /\ WF_vars(PollTimeout)
    /\ WF_vars(NonKeyEvent)
    /\ WF_vars(TickElapsed)
    /\ WF_vars(TickSkip)
    /\ SF_vars(TimePasses)

\* ------------------------------------------------------------- the enumerations on their own
\* Class names and titles the OS reports: empty, plain, the noise prefixes
\* (alone and followed by more text) and a proper prefix of one of them.
ClassNames ==
    { <<>>, <<"A">>, <<"B">>, <<"I", "M">>, IME \o <<"x">>, MSCTFIME_UI,
      WindowsForms10 \o <<".">> }
Titles == { <<>>, <<"x">>, <<"y">> }

\* A top-level pass of n windows, the i-th with handle i, class name f[i][1]
\* and title f[i][2].
TopPass(n, f) ==
    [i \in 1 .. n |-> [handle |-> i, class_name |-> f[i][1],
                       window_text |-> f[i][2], process_id |-> 1]]

\* The windows related to a parent: some with empty class name or title.
RelatedWindow(h) ==
    [handle |-> h,
     class_name |-> IF h = 1 THEN <<>> ELSE IF h = 2 THEN <<"A">> ELSE IME,
     window_text |-> IF h % 2 = 1 THEN <<>> ELSE <<"x">>,
     process_id |-> 1]

\* The handles of a child-window or thread-window pass: each at most once.
PassHandles ==
    { t \in UNION { [1 .. n -> 1 .. MaxReported] : n \in 0 .. MaxReported } :
        \A i, j \in DOMAIN t : i # j => t[i] # t[j] }

RelatedPass(handles) == [i \in DOMAIN handles |-> RelatedWindow(handles[i])]

EnumInit ==
    /\ app_state = new(<<>>)
    /\ overflow_checks = FALSE
    /\ pc = "query"
    /\ fault = "none"
    /\ elapsed = 0
    /\ last_event = "start"
    /\ derived = None
    /\ replaced = None
    /\ listed = <<>>
    /\ \/ \E n \in 0 .. MaxReported :
             \E f \in [1 .. n -> ClassNames \X Titles] :
                os = [query |-> "top", first_pass |-> TopPass(n, f), second_pass |-> <<>>]
       \/ \E child \in PassHandles, thread \in PassHandles :
             os = [query |-> "related", first_pass |-> RelatedPass(child),
                   second_pass |-> RelatedPass(thread)]

\* enum_windows()
CallEnumWindows ==
    /\ pc = "query"
    /\ os.query = "top"
    /\ listed' = enum_windows_of(os.first_pass)
    /\ pc' = "returned"
    /\ UNCHANGED <<app_state, fault, overflow_checks, elapsed, last_event, derived,
                   replaced, os>>

\* enum_child_windows(parent)
CallEnumChildWindows ==
    /\ pc = "query"
    /\ os.query = "related"
    /\ listed' = enum_child_windows_of(os.first_pass, os.second_pass)
    /\ pc' = "returned"
    /\ UNCHANGED <<app_state, fault, overflow_checks, elapsed, last_event, derived,
                   replaced, os>>

EnumNext == CallEnumWindows \/ CallEnumChildWindows

EnumSpec == EnumInit /\ [][EnumNext]_vars

\* ------------------------------------------------------------- typing
Running == pc \in {"render", "poll", "read", "tick"}

TypeOK ==
    /\ pc \in {"render", "poll", "read", "tick", "terminated", "failed", "panicked"}
    /\ fault \in {"none", "sub_overflow", "index_oob"}
    /\ (pc = "panicked") <=> (fault # "none")
    /\ elapsed \in 0 .. MaxElapsed
    /\ app_state.windows.vec \in enum_windows

\* ------------------------------------------------------------- claims
windows == app_state.windows
children == app_state.children
top_item == selected_item(windows).item

\* `selected` is None iff `items` is empty, and a valid index otherwise
ListInvariant(l) ==
    /\ (l.state = None) <=> (l.vec = <<>>)
    /\ l.vec # <<>> => IsSome(l.state) /\ Unwrap(l.state) < Len(l.vec)

\* C1: in every state of the running loop, for both lists, selected is None
\* iff items is empty, and otherwise Some(i) with 0 <= i < len(items).
C1_SelectedIffNonEmpty ==
    pc # "panicked" => ListInvariant(windows) /\ ListInvariant(children)

\* children are what the latest enum_child_windows call returned, and that call
\* was made for the item now selected in windows
DerivedFromSelection(app, d) ==
    /\ selected_item(app.windows).item = Some(Unwrap(d).parent)
    /\ app.children.vec = Unwrap(d).result

\* C2: whenever the loop goes back to render after handling a key event or a
\* tick, children.items is the result of the most recent list_related call and
\* that call was made for the item at windows.selected of the current
\* windows.items; after Up, Down, 'r' or a tick with an item selected, such a
\* call has been made.
C2_ChildrenFollowSelection ==
    [][ (pc = "tick" /\ pc' = "render") =>
            /\ IsSome(derived') => DerivedFromSelection(app_state', derived')
            /\ ( /\ IsSome(selected_item(app_state'.windows).item)
                 /\ (last_event \in {"previous", "next", "update"} \/ elapsed >= RATE) )
               => IsSome(derived') ]_vars

\* C2 witness: a render after 'r' replaced a list by a single-item list whose
\* item is not the one that was selected, children derived from the new item.
C2_Witness ==
    /\ pc = "render"
    /\ last_event = "update"
    /\ Len(windows.vec) = 1
    /\ IsSome(replaced)
    /\ IsSome(derived)
    /\ Unwrap(derived).parent = windows.vec[1]
    /\ Unwrap(derived).parent # Unwrap(replaced)
    /\ children.vec = Unwrap(derived).result
    /\ children.vec # <<>>

\* C3: an enumeration that yields zero windows leaves the loop running and
\* the list it feeds empty: the 'r' refresh whose enum_windows() is empty, and
\* the tick or key whose list_related is empty.
C3_ZeroResultsTolerated ==
    [][ /\ (\E key \in KeysOf("update"), n \in 0 .. MaxChildren :
                KeyRWith(key, <<>>, n))
           => (pc' = "tick" /\ app_state'.windows.vec = <<>>)
        /\ TickElapsedWith(0)
           => (pc' = "render" /\ app_state'.children.vec = <<>>) ]_vars

\* C4: in every state in which windows.selected is None, children.items is
\* empty (select_children with nothing selected leaves an empty children list).
C4_NoSelectionNoChildren ==
    windows.state = None => children.vec = <<>>

\* C4 witness: select_children has run, after 'r', with nothing selected.
C4_Witness ==
    /\ pc = "render"
    /\ last_event = "update"
    /\ windows.state = None
    /\ windows.vec # <<>>
    /\ children.vec = <<>>

\* C5: an Up or Down key handled while windows.items is empty does not panic
\* and leaves windows unchanged.
C5_EmptyListKeysAreNoOps ==
    [][ (\E key \in KeysOf("previous") \cup KeysOf("next"), n \in 0 .. MaxChildren :
            /\ windows.vec = <<>>
            /\ (KeyUpWith(key, n) \/ KeyDownWith(key, n)))
        => (pc' = "tick" /\ app_state'.windows = app_state.windows) ]_vars

\* C6: update(items) on a list that selects k, new_len = len(items): the
\* selection stays k when k <= new_len and becomes new_len - 1 when
\* k > new_len, for every new_len >= 0.
C6_ReplaceClampRule ==
    pc # "panicked" =>
        \A items \in enum_windows :
            IsSome(windows.state) =>
                LET k == Unwrap(windows.state)
                    new_len == Len(items)
                    u == update(windows, items)
                IN  /\ u.fault = "none"
                    /\ u.list.vec = items
                    /\ u.list.state = IF k <= new_len THEN Some(k) ELSE Some(new_len - 1)

InRange(o, len) == IsSome(o) /\ Unwrap(o) \in 0 .. len - 1

\* next() and previous() on a non-empty list select a valid index, no panic
NavigationInRange(l) ==
    Len(l.vec) >= 1 =>
        /\ next(l).fault = "none"
        /\ previous(l).fault = "none"
        /\ InRange(next(l).list.state, Len(l.vec))
        /\ InRange(previous(l).list.state, Len(l.vec))
        /\ next(l).list.vec = l.vec
        /\ previous(l).list.vec = l.vec

\* C7: on every non-empty list the program reaches, next() and previous()
\* leave selected = Some(i) with 0 <= i < len.
C7_NavigationStaysInRange ==
    NavigationInRange(windows) /\ NavigationInRange(children)

\* C7 witness: Up pressed on index 0 of a list of at least two items has
\* moved the selection to the last index.
C7_Witness ==
    /\ pc = "tick"
    /\ last_event = "previous"
    /\ Len(windows.vec) >= 2
    /\ replaced = Some(windows.vec[1])
    /\ windows.state = Some(Len(windows.vec) - 1)

RECURSIVE PressDown(_, _)
\* the Down key handled `times` times in a row
PressDown(app, times) ==
    IF times = 0 THEN app ELSE PressDown(key_down(app, 0).app, times - 1)

\* C8: with len >= 1 and selection Some(i), next() selects (i + 1) mod len and
\* previous() selects (i - 1 + len) mod len, and Down pressed len times
\* returns the selection to i.
C8_WrapAround ==
    (pc # "panicked" /\ Len(windows.vec) >= 1 /\ IsSome(windows.state)) =>
        LET i == Unwrap(windows.state)
            len == Len(windows.vec)
        IN  /\ next(windows).list.state = Some((i + 1) % len)
            /\ previous(windows).list.state = Some((i - 1 + len) % len)
            /\ PressDown(app_state, len).windows.state = Some(i)

\* C8 witness: Down pressed on the last index of a three-item list has
\* wrapped the selection to 0.
C8_Witness ==
    /\ pc = "tick"
    /\ last_event = "next"
    /\ Len(windows.vec) = 3
    /\ replaced = Some(windows.vec[3])
    /\ windows.state = Some(0)

\* C9: with len >= 1 and a selected index, next() then previous(), and
\* previous() then next(), return the selection to the original index.
C9_RoundTrip ==
    (pc # "panicked" /\ Len(windows.vec) >= 1 /\ IsSome(windows.state)) =>
        /\ previous(next(windows).list).list.state = windows.state
        /\ next(previous(windows).list).list.state = windows.state

\* C9 witness: the loop holds a list of at least two items that selects the
\* last index (where next() wraps) after Up moved the selection there.
C9_Witness ==
    /\ pc = "tick"
    /\ last_event = "previous"
    /\ Len(windows.vec) >= 2
    /\ windows.state = Some(Len(windows.vec) - 1)
    /\ next(windows).list.state = Some(0)
    /\ previous(next(windows).list).list.state = windows.state

\* C10: at the first render, children has already been derived from the
\* initially selected top-level item.
C10_DerivedBeforeFirstRender ==
    (pc = "render" /\ last_event = "start" /\ IsSome(top_item)) =>
        IsSome(derived) /\ DerivedFromSelection(app_state, derived)

\* C11: at the tick check, whenever at least RATE has elapsed since the last
\* tick the clock is reset and select_children() runs, whether a key event or
\* the timeout preceded it; and a loop that keeps running performs this
\* periodic refresh again and again.
C11_PeriodicRefresh ==
    /\ [][ (pc = "tick" /\ elapsed >= RATE) =>
              /\ elapsed' = 0
              /\ \E n \in 0 .. MaxChildren :
                    /\ app_state' = select_children(app_state, n).app
                    /\ fault' = select_children(app_state, n).fault ]_vars
    /\ ([]<><<TickElapsed>>_vars \/ <>(~Running))

\* C11 witness: with no key pressed (the poll timed out), the tick has fired
\* and filled children.
C11_Witness ==
    /\ pc = "render"
    /\ last_event = "timeout"
    /\ elapsed = 0
    /\ IsSome(derived)
    /\ children.vec = Unwrap(derived).result
    /\ children.vec # <<>>

\* C12: the loop stops running only in the step that handles a quit key: no
\* tick, no other key and no enumeration result ends it (a failure of the
\* terminal's own I/O aside).
C12_OnlyQuitKeysExit ==
    [][ (Running /\ ~Running' /\ pc' # "failed") =>
            (pc = "read" /\ last_event' = "break" /\ pc' = "terminated") ]_vars

\* a key other than 'q', Control+'c', Up, Down and 'r'
OtherKey(key) ==
    /\ key.code \notin {"q", "Up", "Down", "r"}
    /\ ~(key.modifiers = "CONTROL" /\ key.code = "c")

\* C13: handling a key other than 'q', Control+'c', Up, Down and 'r' leaves
\* both lists (items and selection) unchanged and the loop running; 'c'
\* without Control and 'c' with Control and another modifier are such keys.
C13_OtherKeysAreInert ==
    [][ \A key \in KeyEvents :
            (OtherKey(key) /\ KeyArrives(key)) =>
                (app_state' = app_state /\ pc' = "tick") ]_vars

\* C13 witness: an ignored key has been handled while an item was selected
\* and children were filled; the loop is at its tick check.
C13_Witness ==
    /\ pc = "tick"
    /\ last_event = "ignore"
    /\ IsSome(replaced)
    /\ children.vec # <<>>
    /\ \E key \in KeyEvents : OtherKey(key) /\ key.code = "c" /\ Arm(key) = last_event

\* C14: windows.items changes only in the step that handles 'r'; the tick,
\* Up, Down and every other key leave it as it is, and Up and Down change
\* nothing of windows but its selection.
C14_TopItemsChangeOnlyOnR ==
    [][ /\ app_state'.windows.vec # app_state.windows.vec
           => (pc = "read" /\ last_event' = "update")
        /\ (pc = "read" /\ last_event' \in {"previous", "next"})
           => app_state'.windows.vec = app_state.windows.vec ]_vars

\* C14 witness: 'r' has replaced the top-level list by one that no longer
\* holds the item that was selected.
C14_Witness ==
    /\ pc = "tick"
    /\ last_event = "update"
    /\ IsSome(replaced)
    /\ \A i \in DOMAIN windows.vec : windows.vec[i] # Unwrap(replaced)
    /\ windows.vec # <<>>

\* the Window descriptor of an OS window
Descriptor(w) ==
    [class_name |-> w.class_name, window_text |-> w.window_text,
     handle |-> w.handle, process_id |-> w.process_id]
Descriptors(pass) == [i \in DOMAIN pass |-> Descriptor(pass[i])]

BeginsWith(text, prefix) == \E k \in 0 .. Len(text) : SubSeq(text, 1, k) = prefix

\* non-empty class name that begins with none of the noise prefixes, and
\* non-empty title
Survives(w) ==
    /\ w.class_name # <<>>
    /\ \A prefix \in {IME, MSCTFIME_UI, WindowsForms10} : ~BeginsWith(w.class_name, prefix)
    /\ w.window_text # <<>>

\* the OS result [{A, x}, {"", y}, {B, ""}]
ExampleTopPass ==
    << [handle |-> 1, class_name |-> <<"A">>, window_text |-> <<"x">>, process_id |-> 1],
       [handle |-> 2, class_name |-> <<>>, window_text |-> <<"y">>, process_id |-> 1],
       [handle |-> 3, class_name |-> <<"B">>, window_text |-> <<>>, process_id |-> 1] >>

\* C15: enum_windows() returns, in the OS's order, exactly the descriptors
\* with a non-empty class name that begins with none of "IME", "MSCTFIME UI",
\* "WindowsForms10" and a non-empty title; for [{A,x},{"",y},{B,""}] that is
\* [{A,x}].
C15_TopLevelFilter ==
    (pc = "returned" /\ os.query = "top") =>
        /\ listed = SelectSeq(Descriptors(os.first_pass), Survives)
        /\ os.first_pass = ExampleTopPass => listed = <<Descriptor(ExampleTopPass[1])>>

\* C15 witness: enum_windows() has returned [{A,x}] for the example.
C15_Witness ==
    /\ pc = "returned"
    /\ os.query = "top"
    /\ os.first_pass = ExampleTopPass
    /\ listed = <<Descriptor(ExampleTopPass[1])>>

\* C16: enum_child_windows(w) returns the windows of the child-window pass
\* followed by those of the thread pass, unfiltered: windows with an empty
\* class name or title are kept and a window of both passes appears twice.
C16_RelatedUnfiltered ==
    (pc = "returned" /\ os.query = "related") =>
        listed = Descriptors(os.first_pass) \o Descriptors(os.second_pass)

\* C16 witness: enum_child_windows has returned a window with empty class name
\* and title that both passes reported, twice.
C16_Witness ==
    /\ pc = "returned"
    /\ os.query = "related"
    /\ \E i \in DOMAIN os.first_pass, j \in DOMAIN os.second_pass :
          /\ os.first_pass[i] = os.second_pass[j]
          /\ os.first_pass[i].class_name = <<>>
          /\ os.first_pass[i].window_text = <<>>
          /\ listed[i] = Descriptor(os.first_pass[i])
          /\ listed[Len(os.first_pass) + j] = Descriptor(os.first_pass[i])
    /\ Len(listed) = Len(os.first_pass) + Len(os.second_pass)

\* C17: the timeout handed to poll is max(RATE - elapsed, 0): never negative,
\* never more than RATE, and zero once RATE has elapsed since the last tick.
C17_TimeoutClamped ==
    pc = "poll" =>
        /\ timeout >= 0
        /\ timeout <= RATE
        /\ elapsed >= RATE => timeout = 0
        /\ elapsed < RATE => timeout = RATE - elapsed

\* C17 witness: the loop is about to poll with more than RATE elapsed since
\* the last tick, and the timeout is zero.
C17_Witness ==
    /\ pc = "poll"
    /\ elapsed > RATE
    /\ timeout = 0

\* C18: the loop never reads items[selected] with selected >= len(items) and
\* never computes len - 1 on an empty list: no run of key events, ticks and
\* enumeration results ends in such a panic.
C18_NoOutOfBoundsRead ==
    fault \notin {"index_oob", "sub_overflow"}

\* C19: children.selected is None in every state, also when children is not
\* empty.
C19_ChildrenNeverSelected ==
    children.state = None

\* C19 witness: children has been filled and has no selected row.
C19_Witness ==
    /\ pc = "render"
    /\ Len(children.vec) >= 1
    /\ IsSome(derived)
    /\ children.vec = Unwrap(derived).result
    /\ children.state = None

\* C20: windows.selected never goes from Some to None, whatever the step
\* (update with any list, next, previous, tick); and the 'r' refresh does not
\* create a selection: a list without one has none after it.
C20_SelectionNeverCleared ==
    [][ /\ IsSome(app_state.windows.state) => IsSome(app_state'.windows.state)
        /\ (pc = "read" /\ last_event' = "update" /\ app_state.windows.state = None)
           => app_state'.windows.state = None ]_vars

\* C20 witness: 'r' has filled a top-level list that started empty and the
\* list still has no selection.
C20_Witness ==
    /\ pc = "tick"
    /\ last_event = "update"
    /\ Len(windows.vec) >= 1
    /\ windows.state = None
    /\ replaced = None

====
